---- MODULE Spec2Model ----
(***************************************************************************)
(* Model of src/extractors/python_ast_helper.py: one run of main() reads a *)
(* request, parses its content into a syntax tree, extracts one record per *)
(* function definition and writes either the records (output channel,      *)
(* exit code 0) or an error object (error channel, exit code 1).            *)
(*                                                                          *)
(* A syntax tree is a record [parent, node]: nodes are numbered 1..n, node  *)
(* 1 is the Module root, parent[i] < i, and the children of a node are      *)
(* ordered by number (the order of ast.iter_child_nodes).  The called       *)
(* expression of a Call node is kept as the node's `func` field; Name and   *)
(* Attribute nodes are leaves or chains the walks pass over without effect. *)
(***************************************************************************)
EXTENDS Integers, Sequences, FiniteSets, TLC

VARIABLES pc, request, stdout, stderr, exit_code

vars == <<pc, request, stdout, stderr, exit_code>>

\* Largest number of nodes of a syntax tree, the Module root included.
MaxNodes == 4

----------------------------------------------------------------------------
(* Inputs *)

NoFunc == [type |-> "None", id |-> "", attr |-> "", value |-> <<>>]

\* The shapes of a called expression: a bare name, an attribute access
\* a.b.c (attr is the final name, value the receiver chain), or any other
\* expression (a call result, a subscript, a lambda).
Funcs ==
    { [type |-> "Name", id |-> "a", attr |-> "", value |-> <<>>],
      [type |-> "Attribute", id |-> "", attr |-> "c", value |-> <<"a", "b">>],
      [type |-> "Other", id |-> "", attr |-> "", value |-> <<>>] }

ModuleNode == [type |-> "Module", name |-> "", func |-> NoFunc]

DefNodes ==
    { [type |-> "FunctionDef", name |-> "f", func |-> NoFunc],
      [type |-> "AsyncFunctionDef", name |-> "g", func |-> NoFunc] }

\* ClassDef stands for every statement that is neither a definition nor a
\* call (class, conditional, loop).
StmtNodes == { [type |-> "ClassDef", name |-> "", func |-> NoFunc] }

CallNodes == { [type |-> "Call", name |-> "", func |-> fn] : fn \in Funcs }

NonRootNodes == DefNodes \cup StmtNodes \cup CallNodes

RECURSIVE IsAncestorOrSelf(_, _, _)
IsAncestorOrSelf(parent, a, n) ==
    IF n = a THEN TRUE
    ELSE IF n <= 1 THEN FALSE
    ELSE IsAncestorOrSelf(parent, a, parent[n])

\* Nodes are numbered in the order of the source text, so the parent of a
\* node is the node before it or one of that node's ancestors.
ParentsOfSize(n) ==
    { p \in { <<0>> \o q : q \in [1..(n - 1) -> 1..(n - 1)] } :
        /\ \A i \in 2..n : p[i] < i
        /\ \A i \in 3..n : IsAncestorOrSelf(p, p[i], i - 1) }

TreesOfSize(n) ==
    { [parent |-> p, node |-> <<ModuleNode>> \o l] :
        p \in ParentsOfSize(n), l \in [1..(n - 1) -> NonRootNodes] }

\* The trees ast.parse can return: statements never occur inside an
\* expression, so no definition or class has a Call as its parent.
WellFormed(t) ==
    \A i \in 2..Len(t.node) :
        t.node[t.parent[i]].type = "Call" => t.node[i].type = "Call"

Trees == { t \in UNION { TreesOfSize(n) : n \in 1..MaxNodes } : WellFormed(t) }

EmptyTree == [parent |-> <<0>>, node |-> <<ModuleNode>>]

\* The content of a request: source text that does not parse, or source
\* text that parses to a tree.
Contents ==
    { [valid |-> FALSE, tree |-> EmptyTree] }
        \cup { [valid |-> TRUE, tree |-> t] : t \in Trees }

\* The contents tried with a request that is rejected before its content
\* is looked at.
UnreadContents == { c \in Contents : Len(c.tree.node) <= 2 }

\* What arrives on the input channel.  kind "bad_json": the input is not a
\* serialized object; "no_file", "no_content": the object lacks that field;
\* "bad_file": the file field cannot serve as a file name (not a string, or
\* a string with a null character); "ok": both fields are usable.
\* has_end_lineno tells whether the nodes built by the interpreter's parser
\* carry the attribute end_lineno.
Requests ==
    { [kind |-> k, content |-> [valid |-> FALSE, tree |-> EmptyTree],
       has_end_lineno |-> TRUE] : k \in {"bad_json", "no_content"} }
        \cup { [kind |-> k, content |-> c, has_end_lineno |-> TRUE] :
                 k \in {"no_file", "bad_file"}, c \in UnreadContents }
        \cup { [kind |-> "ok", content |-> c, has_end_lineno |-> h] :
                 c \in Contents, h \in BOOLEAN }

\* The names a call can contribute, and the orders in which a set of them
\* can be iterated.
CallNames == {"a", "b", "c"}

Orders ==
    { o \in [1..Cardinality(CallNames) -> CallNames] :
        \A i, j \in 1..Cardinality(CallNames) : o[i] = o[j] => i = j }

----------------------------------------------------------------------------
(* Tree walks *)

Range(s) == { s[i] : i \in 1..Len(s) }

Nodes(t) == 1..Len(t.node)

\* ast.iter_child_nodes: the children of node n, in order.
RECURSIVE ChildrenFrom(_, _, _)
ChildrenFrom(t, n, i) ==
    IF i > Len(t.node) THEN <<>>
    ELSE (IF t.parent[i] = n THEN <<i>> ELSE <<>>) \o ChildrenFrom(t, n, i + 1)

iter_child_nodes(t, n) == ChildrenFrom(t, n, n + 1)

\* The nodes in the order of the source text (depth-first, pre-order).
RECURSIVE PreOrderList(_, _)
PreOrderList(t, ns) ==
    IF ns = <<>> THEN <<>>
    ELSE <<Head(ns)>> \o PreOrderList(t, iter_child_nodes(t, Head(ns)))
                      \o PreOrderList(t, Tail(ns))

PreOrder(t) == PreOrderList(t, <<1>>)

\* ast.walk: take the first node of the queue, append its children to the
\* end of the queue, yield the node.
RECURSIVE WalkQueue(_, _)
WalkQueue(t, todo) ==
    IF todo = <<>> THEN <<>>
    ELSE <<Head(todo)>> \o WalkQueue(t, Tail(todo) \o iter_child_nodes(t, Head(todo)))

\* Variant: a walk that descends into a node before it visits the node's
\* later siblings.
walk_depth_first(t, n) == PreOrderList(t, <<n>>)

walk(t, n) == WalkQueue(t, <<n>>)

IndexOf(s, x) == CHOOSE i \in 1..Len(s) : s[i] = x

Subtree(t, n) == { m \in Nodes(t) : IsAncestorOrSelf(t.parent, n, m) }

\* The parser's line numbers: every node on a line of its own, so a node's
\* line is its position in the source text and its closing line is the
\* line of the last node inside it.
lineno(t, n) == IndexOf(PreOrder(t), n)

end_lineno(t, n) == lineno(t, n) + Cardinality(Subtree(t, n)) - 1

----------------------------------------------------------------------------
(* extract_function_calls *)

IsCall(nd) == nd.type = "Call"

\* Variant: only synchronous definitions are recognised.
IsFunctionDef_sync_only(nd) == nd.type = "FunctionDef"

IsFunctionDef(nd) == nd.type = "FunctionDef" \/ nd.type = "AsyncFunctionDef"

\* Variant: an attribute call records its receiver chain as well.
CallTarget_with_receiver(nd) ==
    IF IsCall(nd)
    THEN IF nd.func.type = "Name" THEN <<nd.func.id>>
         ELSE IF nd.func.type = "Attribute" THEN nd.func.value \o <<nd.func.attr>>
         ELSE <<>>
    ELSE <<>>

\* What one visited node appends to `calls`.
CallTarget(nd) ==
    IF IsCall(nd)
    THEN IF nd.func.type = "Name" THEN <<nd.func.id>>
         ELSE IF nd.func.type = "Attribute" THEN <<nd.func.attr>>
         ELSE <<>>
    ELSE <<>>

RECURSIVE CollectCalls(_, _)
CollectCalls(t, ns) ==
    IF ns = <<>> THEN <<>>
    ELSE CallTarget(t.node[Head(ns)]) \o CollectCalls(t, Tail(ns))

\* Variant: the loop ends at the first call whose called expression is
\* neither a name nor an attribute access.
RECURSIVE CollectCallsUntilUnnamed(_, _)
CollectCallsUntilUnnamed(t, ns) ==
    IF ns = <<>> THEN <<>>
    ELSE IF IsCall(t.node[Head(ns)]) /\ t.node[Head(ns)].func.type = "Other"
    THEN <<>>
    ELSE CallTarget(t.node[Head(ns)]) \o CollectCallsUntilUnnamed(t, Tail(ns))

extract_function_calls_until_unnamed(t, n) ==
    CollectCallsUntilUnnamed(t, walk(t, n))

\* Variant: the walk leaves out the inside of definitions nested in n.
extract_function_calls_own_body(t, n) ==
    CollectCalls(t, SelectSeq(walk(t, n),
        LAMBDA m : \A d \in Subtree(t, n) \ {n} :
            IsFunctionDef(t.node[d]) => ~IsAncestorOrSelf(t.parent, d, m)))

extract_function_calls(t, n) == CollectCalls(t, walk(t, n))

----------------------------------------------------------------------------
(* extract_functions *)

\* Variant: the collected list is kept as it is.
list_set_keep_all(calls, order) == calls

\* list(set(calls)): the distinct entries of calls, in the iteration order
\* of the set.
list_set(calls, order) == SelectSeq(order, LAMBDA x : x \in Range(calls))

\* Variant: the calls are collected from the root of the tree.
FunctionRecord_from_root(t, n, order, has_end) ==
    [name |-> t.node[n].name,
     start_line |-> lineno(t, n),
     end_line |-> IF has_end THEN end_lineno(t, n) ELSE lineno(t, n),
     calls |-> list_set(extract_function_calls(t, 1), order)]

\* The record appended for definition node n.
FunctionRecord(t, n, order, has_end) ==
    [name |-> t.node[n].name,
     start_line |-> lineno(t, n),
     end_line |-> IF has_end THEN end_lineno(t, n) ELSE lineno(t, n),
     calls |-> list_set(extract_function_calls(t, n), order)]

RECURSIVE CollectFunctions(_, _, _, _)
CollectFunctions(t, ns, order, has_end) ==
    IF ns = <<>> THEN <<>>
    ELSE (IF IsFunctionDef(t.node[Head(ns)])
          THEN <<FunctionRecord(t, Head(ns), order, has_end)>>
          ELSE <<>>) \o CollectFunctions(t, Tail(ns), order, has_end)

extract_functions(t, order, has_end) ==
    CollectFunctions(t, walk(t, 1), order, has_end)

----------------------------------------------------------------------------
(* main *)

\* Variant: content that does not parse is treated as an empty module.
parse_lenient(content) ==
    [ok |-> TRUE, tree |-> IF content.valid THEN content.tree ELSE EmptyTree]

\* ast.parse: the tree of the content, or a SyntaxError.
parse(content) ==
    IF content.valid THEN [ok |-> TRUE, tree |-> content.tree]
    ELSE [ok |-> FALSE, tree |-> EmptyTree]

\* The except clause: one error object on the error channel, exit code 1.
Failure(msg) ==
    [stdout |-> <<>>, stderr |-> <<[error |-> msg]>>, exit_code |-> 1]

\* The end of the try block: the records on the output channel; the
\* process then ends with exit code 0.
Success(functions) ==
    [stdout |-> <<functions>>, stderr |-> <<>>, exit_code |-> 0]

\* Variant: an empty list of records is reported as a failure.
run_rejects_empty(req, order) ==
    IF req.kind = "bad_json" THEN Failure("JSONDecodeError")
    ELSE IF req.kind = "no_file" THEN Failure("KeyError: file")
    ELSE IF req.kind = "no_content" THEN Failure("KeyError: content")
    ELSE IF req.kind = "bad_file" THEN Failure("TypeError: file")
    ELSE IF ~parse(req.content).ok THEN Failure("SyntaxError")
    ELSE IF extract_functions(parse(req.content).tree, order,
                              req.has_end_lineno) = <<>>
    THEN Failure("no functions")
    ELSE Success(extract_functions(parse(req.content).tree, order,
                                   req.has_end_lineno))

\* Variant: a missing field is read as an empty default.
run_with_defaults(req, order) ==
    IF req.kind = "bad_json" THEN Failure("JSONDecodeError")
    ELSE IF req.kind = "no_content" THEN Success(<<>>)
    ELSE IF req.kind = "bad_file" THEN Failure("TypeError: file")
    ELSE IF ~parse(req.content).ok THEN Failure("SyntaxError")
    ELSE Success(extract_functions(parse(req.content).tree, order,
                                   req.has_end_lineno))

\* The body of main: every exception raised inside the try block ends in
\* the except clause.
run(req, order) ==
    IF req.kind = "bad_json" THEN Failure("JSONDecodeError")
    ELSE IF req.kind = "no_file" THEN Failure("KeyError: file")
    ELSE IF req.kind = "no_content" THEN Failure("KeyError: content")
    ELSE IF req.kind = "bad_file" THEN Failure("TypeError: file")
    ELSE IF ~parse(req.content).ok THEN Failure("SyntaxError")
    ELSE Success(extract_functions(parse(req.content).tree, order,
                                   req.has_end_lineno))

\* stdout and stderr hold the objects written so far; exit_code is -1
\* while the process runs.
Init ==
    /\ pc = "start"
    /\ request \in Requests
    /\ stdout = <<>>
    /\ stderr = <<>>
    /\ exit_code = -1

Main ==
    /\ pc = "start"
    /\ \E order \in Orders :
         LET r == run(request, order)
         IN  /\ stdout' = r.stdout
             /\ stderr' = r.stderr
             /\ exit_code' = r.exit_code
    /\ pc' = "done"
    /\ UNCHANGED request

Next == Main

Spec == Init /\ [][Next]_vars

----------------------------------------------------------------------------
(* Vocabulary of the properties *)

Done == pc = "done"

Tree == request.content.tree

\* The request carries a content field that the run gets to read or skip.
HasContent == request.kind \in {"no_file", "bad_file", "ok"}

\* The run parsed the content into Tree.
Parsed == Done /\ request.kind = "ok" /\ request.content.valid

\* The two outcomes of a run.
SuccessOutcome == Len(stdout) = 1 /\ stderr = <<>> /\ exit_code = 0

ErrorOutcome ==
    /\ stdout = <<>>
    /\ Len(stderr) = 1
    /\ DOMAIN stderr[1] = {"error"}
    /\ exit_code = 1

Records == stdout[1]

Definitions(t) ==
    { n \in Nodes(t) : t.node[n].type \in {"FunctionDef", "AsyncFunctionDef"} }

\* The call nodes whose called expression is a bare name or an attribute
\* access, and the name such a call is known by.
NamedCalls(t) ==
    { n \in Nodes(t) : t.node[n].type = "Call"
                        /\ t.node[n].func.type \in {"Name", "Attribute"} }

UnnamedCalls(t) ==
    { n \in Nodes(t) : t.node[n].type = "Call" /\ t.node[n].func.type = "Other" }

StaticName(nd) == IF nd.func.type = "Name" THEN nd.func.id ELSE nd.func.attr

Descendants(t, n) == { m \in Nodes(t) : IsAncestorOrSelf(t.parent, n, m) }

TargetsUnder(t, n) ==
    { StaticName(t.node[m]) : m \in NamedCalls(t) \cap Descendants(t, n) }

\* The definition node a record was made from: the node declared at the
\* record's start line.
NodeOf(t, r) == PreOrder(t)[r.start_line]

RECURSIVE Depth(_, _)
Depth(t, n) == IF n <= 1 THEN 0 ELSE 1 + Depth(t, t.parent[n])

PreOrderPos(t, n) == IndexOf(PreOrder(t), n)

----------------------------------------------------------------------------
(* C1 *)

\* C1: a request whose content is not syntactically valid ends in the error
\* outcome: one object with the field error on the error channel, exit code
\* 1, and nothing on the output channel.
C1_InvalidContentEndsInError ==
    (Done /\ HasContent /\ ~request.content.valid) => ErrorOutcome

C1_Witness ==
    Done /\ request.kind = "ok" /\ ~request.content.valid /\ ErrorOutcome

(* C2 *)

\* C2 as stated: every request whose content is syntactically valid ends in
\* the success outcome.
C2_ValidContentAlwaysSucceeds ==
    (Done /\ HasContent /\ request.content.valid) => SuccessOutcome

\* C2 amended: a request that is a well-formed structure with a usable file
\* field and syntactically valid content ends in the success outcome, and
\* when the content has no function definition the sequence written is the
\* empty sequence.
C2_WellFormedValidRequestSucceeds ==
    Parsed =>
        /\ SuccessOutcome
        /\ (Definitions(Tree) = {} => Records = <<>>)

C2_Witness ==
    /\ Parsed
    /\ Len(Tree.node) > 1
    /\ Definitions(Tree) = {}
    /\ SuccessOutcome
    /\ Records = <<>>

(* C3 *)

\* C3: the result has exactly one record per function-definition or
\* asynchronous-function-definition node of the tree, at any depth, and the
\* record carries the node's name.
C3_OneRecordPerDefinition ==
    (Parsed /\ SuccessOutcome) =>
        /\ Len(Records) = Cardinality(Definitions(Tree))
        /\ \A n \in Definitions(Tree) :
             /\ Cardinality({ i \in 1..Len(Records) :
                                Records[i].start_line = lineno(Tree, n) }) = 1
             /\ \A i \in 1..Len(Records) :
                  Records[i].start_line = lineno(Tree, n)
                      => Records[i].name = Tree.node[n].name

\* Two definitions with the same name, one nested in the other, and an
\* asynchronous definition: three records.
C3_Witness ==
    /\ Parsed /\ SuccessOutcome
    /\ Len(Records) = 3
    /\ \E i, j \in 1..Len(Records) :
         /\ i # j
         /\ Records[i].name = Records[j].name
         /\ NodeOf(Tree, Records[j]) \in Descendants(Tree, NodeOf(Tree, Records[i]))
    /\ \E k \in 1..Len(Records) :
         Tree.node[NodeOf(Tree, Records[k])].type = "AsyncFunctionDef"

(* C4 *)

\* C4: a record's calls is exactly the set of names of the named call
\* expressions in the whole subtree of its definition node, those inside
\* nested definitions included; so the calls of a nested definition are
\* among the calls of the enclosing one, and a definition without a call
\* has the field calls, empty.
C4_CallsOfWholeSubtree ==
    (Parsed /\ SuccessOutcome) =>
        /\ \A i \in 1..Len(Records) :
             /\ "calls" \in DOMAIN Records[i]
             /\ Range(Records[i].calls) = TargetsUnder(Tree, NodeOf(Tree, Records[i]))
             /\ (TargetsUnder(Tree, NodeOf(Tree, Records[i])) = {}
                    => Records[i].calls = <<>>)
        /\ \A i, j \in 1..Len(Records) :
             NodeOf(Tree, Records[j]) \in Descendants(Tree, NodeOf(Tree, Records[i]))
                 => Range(Records[j].calls) \subseteq Range(Records[i].calls)

\* A definition nested in another one holds a named call.
C4_Witness ==
    /\ Parsed /\ SuccessOutcome
    /\ \E i, j \in 1..Len(Records) :
         /\ i # j
         /\ NodeOf(Tree, Records[j]) \in Descendants(Tree, NodeOf(Tree, Records[i]))
         /\ Records[j].calls # <<>>
         /\ Records[i].calls # <<>>

(* C5 *)

\* C5 as stated: the records are in depth-first, pre-order order of their
\* definition nodes.
C5_PreOrderSequence ==
    (Parsed /\ SuccessOutcome) =>
        \A i, j \in 1..Len(Records) :
            i < j => PreOrderPos(Tree, NodeOf(Tree, Records[i]))
                        < PreOrderPos(Tree, NodeOf(Tree, Records[j]))

\* C5 amended: the records are in breadth-first (level) order of their
\* definition nodes: a definition at a smaller depth comes before every
\* definition at a greater depth, and definitions of the same depth come in
\* the order of the source text.
C5_LevelOrderSequence ==
    (Parsed /\ SuccessOutcome) =>
        \A i, j \in 1..Len(Records) :
            i < j =>
                LET a == NodeOf(Tree, Records[i])
                    b == NodeOf(Tree, Records[j])
                IN  \/ Depth(Tree, a) < Depth(Tree, b)
                    \/ /\ Depth(Tree, a) = Depth(Tree, b)
                       /\ PreOrderPos(Tree, a) < PreOrderPos(Tree, b)

\* A definition nested in an earlier sibling is reported after the later
\* sibling.
C5_Witness ==
    /\ Parsed /\ SuccessOutcome
    /\ \E i, j \in 1..Len(Records) :
         /\ i < j
         /\ Records[i].start_line > Records[j].start_line

(* C6 *)

AttributeCalls(t) ==
    { n \in Nodes(t) : t.node[n].type = "Call" /\ t.node[n].func.type = "Attribute" }

\* C6: a call a.b.c() inside a definition adds the final name c to the
\* record's calls, and a receiver name (a, b) is in calls only when some
\* call expression of the subtree has that name as its own target.
C6_AttributeCallGivesFinalNameOnly ==
    (Parsed /\ SuccessOutcome) =>
        \A i \in 1..Len(Records) :
            \A m \in AttributeCalls(Tree) \cap Descendants(Tree, NodeOf(Tree, Records[i])) :
                /\ Tree.node[m].func.attr \in Range(Records[i].calls)
                /\ \A x \in Range(Tree.node[m].func.value) :
                     x \in Range(Records[i].calls)
                         => \E k \in NamedCalls(Tree)
                                  \cap Descendants(Tree, NodeOf(Tree, Records[i])) :
                                StaticName(Tree.node[k]) = x

\* A definition whose only call is a.b.c(): calls is exactly <<c>>.
C6_Witness ==
    /\ Parsed /\ SuccessOutcome
    /\ \E i \in 1..Len(Records) :
         /\ AttributeCalls(Tree) \cap Descendants(Tree, NodeOf(Tree, Records[i])) # {}
         /\ Records[i].calls = <<"c">>

(* C7 *)

\* C7: a call whose called expression is neither a name nor an attribute
\* access adds nothing to calls and raises no error: the run succeeds,
\* every entry of calls is the name of a named call of the subtree, and
\* every named call of the subtree is still collected.
C7_UnnamedCallIsSkipped ==
    (Done /\ request.kind = "ok" /\ request.content.valid
          /\ UnnamedCalls(Tree) # {}) =>
        /\ SuccessOutcome
        /\ \A i \in 1..Len(Records) :
             LET sub == Descendants(Tree, NodeOf(Tree, Records[i]))
             IN  UnnamedCalls(Tree) \cap sub # {} =>
                   /\ Len(Records[i].calls)
                          <= Cardinality(NamedCalls(Tree) \cap sub)
                   /\ \A k \in NamedCalls(Tree) \cap sub :
                        \E q \in 1..Len(Records[i].calls) :
                            Records[i].calls[q] = StaticName(Tree.node[k])

\* A definition holds an unnamed call with a named call inside it (a call
\* result invoked immediately), and the named call is collected.
C7_Witness ==
    /\ Parsed /\ SuccessOutcome
    /\ \E i \in 1..Len(Records) :
         \E u \in UnnamedCalls(Tree) \cap Descendants(Tree, NodeOf(Tree, Records[i])) :
             /\ NamedCalls(Tree) \cap Descendants(Tree, u) # {}
             /\ Len(Records[i].calls) = 1

(* C8 *)

\* C8: every record has 1 <= start_line <= end_line and no entry twice in
\* calls.
C8_LineSpanAndDistinctCalls ==
    (Parsed /\ SuccessOutcome) =>
        \A i \in 1..Len(Records) :
            /\ 1 <= Records[i].start_line
            /\ Records[i].start_line <= Records[i].end_line
            /\ \A q, r \in 1..Len(Records[i].calls) :
                 Records[i].calls[q] = Records[i].calls[r] => q = r

\* A definition of several lines that calls the same name twice.
C8_Witness ==
    /\ Parsed /\ SuccessOutcome
    /\ \E i \in 1..Len(Records) :
         /\ Records[i].start_line < Records[i].end_line
         /\ \E k, l \in NamedCalls(Tree) \cap Descendants(Tree, NodeOf(Tree, Records[i])) :
              /\ k # l
              /\ StaticName(Tree.node[k]) = StaticName(Tree.node[l])
         /\ Len(Records[i].calls) = 1

(* C9 *)

\* C9 as stated: a run reports an error only if its content is not valid
\* source text; no other failure produces the error outcome.
C9_ErrorOnlyFromParseFailure ==
    (Done /\ ErrorOutcome) => (request.kind = "ok" /\ ~request.content.valid)

\* C9 amended: the error outcome is the outcome of every failure of the
\* run: a run reports an error exactly when its content is not valid source
\* text, or the request is not a well-formed structure, or it lacks the
\* file or the content field, or its file field is unusable; every other
\* run ends in the success outcome.
C9_ErrorFromEveryFailure ==
    Done =>
        /\ ErrorOutcome <=> (request.kind # "ok" \/ ~request.content.valid)
        /\ ErrorOutcome \/ SuccessOutcome

C9_Witness ==
    /\ Done
    /\ request.kind = "no_content"
    /\ ErrorOutcome

(* C10 *)

\* The call expressions attached to the definition node itself (decorator,
\* default value, annotation) and those outside every definition.
DirectCalls(t, n) == { m \in NamedCalls(t) : t.parent[m] = n }

CallsOutsideDefinitions(t) ==
    { m \in NamedCalls(t) : \A d \in Definitions(t) : m \notin Descendants(t, d) }

\* C10: a named call attached to the definition node itself is in the
\* record's calls, and a call outside every definition adds nothing to any
\* record: its name is in a record's calls only when a call of that
\* definition's subtree has the name.
C10_WholeDefinitionNodeIsWalked ==
    (Parsed /\ SuccessOutcome) =>
        \A i \in 1..Len(Records) :
            /\ \A m \in DirectCalls(Tree, NodeOf(Tree, Records[i])) :
                 StaticName(Tree.node[m]) \in Range(Records[i].calls)
            /\ \A m \in CallsOutsideDefinitions(Tree) :
                 StaticName(Tree.node[m]) \in Range(Records[i].calls)
                     => StaticName(Tree.node[m])
                            \in TargetsUnder(Tree, NodeOf(Tree, Records[i]))

\* A call at module level, and a definition with a call of another name
\* attached to it.
C10_Witness ==
    /\ Parsed /\ SuccessOutcome
    /\ \E i \in 1..Len(Records) :
         /\ DirectCalls(Tree, NodeOf(Tree, Records[i])) # {}
         /\ \E m \in CallsOutsideDefinitions(Tree) :
              StaticName(Tree.node[m]) \notin Range(Records[i].calls)

====
